---- MODULE Spec2Model ----
(***************************************************************************)
(* DeepWhisperer (src/deepwhisperer/deepwhisperer.py): producers enqueue   *)
(* send-tasks, one background thread (_process_queue) collects them during *)
(* a batch window, merges the texts, dispatches the batch through          *)
(* _send_request and retries the failed_messages ledger; stop() signals    *)
(* the thread, waits for the queue to be empty and joins.                  *)
(*                                                                         *)
(* Time is counted in ticks of 0.5 s, the timeout of message_queue.get and *)
(* the length of every fixed sleep of the code.                            *)
(***************************************************************************)
EXTENDS Integers, Sequences, FiniteSets, TLC

(* ---- configuration (constructor arguments) and bounds ---- *)

\* max_retries
MaxRetries == 3
\* queue_size
QueueSize == 1
\* deduplication_ttl, in ticks
Ttl == 3
\* batch_interval, in ticks
BatchInterval == 2
\* retry_delay, in seconds
RetryDelay == 1
\* producer calls made after construction
MaxSends == 1
\* last tick at which the wall clock is read by a producer
MaxClock == 4

\* TTLCache(maxsize=100, ...)
CacheMaxSize == 100
\* ticks per second of the strftime resolution (%S) : get(timeout=0.5)
TicksPerSecond == 2

ChatId == "chat"
None == <<>>

Messages == {"a", "b"}
BlankMessages == {" "}
ParseModes == {"Markdown", "HTML"}
ConnectionMessages == {"a"}

Min(x, y) == IF x < y THEN x ELSE y

VARIABLES
    message_queue,     \* queue.Queue(maxsize=queue_size): sequence of tasks
    recent_messages,   \* TTLCache: entries [key, age] in insertion order
    failed_messages,   \* the ledger
    stop_event,        \* threading.Event
    client_closed,     \* httpx_client.close() has run
    pc,                \* position of the _process_queue thread
    batch,             \* local of _process_queue
    collected_messages,\* local of _process_queue
    slots,             \* one _send_request call per task of batch
    elapsed,           \* time.time() - start_time, saturating at BatchInterval
    now,               \* wall clock, saturating at MaxClock
    stop_pc,           \* position of the caller of stop()
    calls,             \* number of producer calls made
    last_call,         \* history: the most recent producer call
    sent_age,          \* history: ticks since send_message(m, dup=False) passed
    owed,              \* history: tasks queued at stop_event.set(), not yet dequeued
    late_enqueue,      \* history: a producer enqueued after stop_event.set()
    retried            \* history: results of this cycle's ledger resubmissions

vars == <<message_queue, recent_messages, failed_messages, stop_event,
          client_closed, pc, batch, collected_messages, slots, elapsed, now,
          stop_pc, calls, last_call, sent_age, owed, late_enqueue, retried>>

(* ---- framing and fingerprint ---- *)

\* a text is the sequence of its lines
FormattedTitle == "TITLE"

FormattedTime(t) == ToString(t \div TicksPerSecond)

Wrap(message, t) == <<FormattedTitle, message, FormattedTime(t)>>

\* hashlib.sha256(text.encode()).hexdigest(), taken as collision free: a digest
\* is determined by, and determines, the text it was taken of
Sha256(text) == <<"sha256", text>>

IsBlank(message) == message \in BlankMessages

(* ---- TTLCache ---- *)

Expired(e) == e.age >= Ttl

\* a membership test that does not look at the expiry of the entry
CacheContainsNoExpiry(cache, key) ==
    \E i \in 1..Len(cache) : cache[i].key = key

CacheContains(cache, key) ==
    \E i \in 1..Len(cache) : cache[i].key = key /\ ~Expired(cache[i])

CacheExpire(cache) == SelectSeq(cache, LAMBDA e : ~Expired(e))

\* a set that keeps the old expiry of a key it already holds
CacheSetNoRefresh(cache, key) ==
    LET live == CacheExpire(cache)
    IN  IF \E i \in 1..Len(live) : live[i].key = key
        THEN live
        ELSE Append(live, [key |-> key, age |-> 0])

CacheSet(cache, key) ==
    LET live == CacheExpire(cache)
        has  == \E i \in 1..Len(live) : live[i].key = key
        rest == SelectSeq(live, LAMBDA e : e.key # key)
        room == IF ~has /\ Len(rest) >= CacheMaxSize THEN Tail(rest) ELSE rest
    IN  Append(room, [key |-> key, age |-> 0])

CacheAge(cache) ==
    [i \in 1..Len(cache) |-> [cache[i] EXCEPT !.age = Min(@ + 1, Ttl)]]

(* ---- queue ---- *)

\* a capacity test that lets one task too many in
QueueFullOffByOne(q) == QueueSize > 0 /\ Len(q) > QueueSize

QueueFull(q) == QueueSize > 0 /\ Len(q) >= QueueSize

(* ---- time ---- *)

Advance ==
    /\ now' = Min(now + 1, MaxClock)
    /\ elapsed' = Min(elapsed + 1, BatchInterval)
    /\ recent_messages' = CacheAge(recent_messages)
    /\ sent_age' = [m \in Messages |-> Min(sent_age[m] + 1, Ttl)]

(* ---- producers ---- *)

\* a put_nowait whose queue.Full reaches the caller
QueueFullUnhandled == "raised"

\* except queue.Full (except Exception in _send_media): logged, the call returns
QueueFullHandled == "full"

TextTask(wrapped, parse_mode) ==
    <<"sendMessage",
      [chat_id |-> ChatId, parse_mode |-> parse_mode, text |-> wrapped],
      None>>

\* a duplicate check that does not look at allow_duplicates
SuppressedAlways(cache, message_hash, allow_duplicates) ==
    CacheContains(cache, message_hash)

\* a duplicate check with the test of allow_duplicates inverted
SuppressedInverted(cache, message_hash, allow_duplicates) ==
    allow_duplicates /\ CacheContains(cache, message_hash)

Suppressed(cache, message_hash, allow_duplicates) ==
    ~allow_duplicates /\ CacheContains(cache, message_hash)

SendMessage(message, parse_mode, allow_duplicates) ==
    LET wrapped == Wrap(message, now)
        message_hash == Sha256(wrapped)
        outcome == IF IsBlank(message) THEN "empty"
                   ELSE IF Suppressed(recent_messages, message_hash, allow_duplicates)
                        THEN "duplicate"
                   ELSE IF QueueFull(message_queue) THEN QueueFullHandled
                   ELSE "queued"
    IN  /\ calls < MaxSends
        /\ now < MaxClock
        /\ calls' = calls + 1
        /\ last_call' = [op |-> "send_message", message |-> message,
                         allow_duplicates |-> allow_duplicates, outcome |-> outcome]
        /\ recent_messages' = IF outcome \in {"empty", "duplicate"}
                              THEN recent_messages
                              ELSE CacheSet(recent_messages, message_hash)
        /\ message_queue' = IF outcome = "queued"
                            THEN Append(message_queue, TextTask(wrapped, parse_mode))
                            ELSE message_queue
        /\ sent_age' = IF ~allow_duplicates /\ outcome \in {"full", "queued"}
                       THEN [sent_age EXCEPT ![message] = 0]
                       ELSE sent_age
        /\ late_enqueue' = (late_enqueue \/ (stop_event /\ outcome = "queued"))
        /\ UNCHANGED <<failed_messages, stop_event, client_closed, pc, batch,
                       collected_messages, slots, elapsed, now, stop_pc, owed,
                       retried>>

MediaTask(endpoint, media_type, file_name, caption, t) ==
    <<endpoint,
      [chat_id |-> ChatId, caption |-> Wrap(caption, t),
       disable_notification |-> FALSE],
      <<media_type, file_name, media_type>>>>

\* send_file, send_photo, send_audio, send_video, ... : the _send_media callers
SendMedia(endpoint, media_type, file_name, exists) ==
    LET outcome == IF ~exists THEN "no_file"
                   ELSE IF QueueFull(message_queue) THEN QueueFullHandled
                   ELSE "queued"
    IN  /\ calls < MaxSends
        /\ now < MaxClock
        /\ calls' = calls + 1
        /\ last_call' = [op |-> "send_media", message |-> file_name,
                         allow_duplicates |-> TRUE, outcome |-> outcome]
        /\ message_queue' = IF outcome = "queued"
                            THEN Append(message_queue,
                                        MediaTask(endpoint, media_type, file_name, "", now))
                            ELSE message_queue
        /\ late_enqueue' = (late_enqueue \/ (stop_event /\ outcome = "queued"))
        /\ UNCHANGED <<recent_messages, failed_messages, stop_event, client_closed,
                       pc, batch, collected_messages, slots, elapsed, now, stop_pc,
                       sent_age, owed, retried>>

LocationTask(latitude, longitude) ==
    <<"sendLocation",
      [chat_id |-> ChatId, latitude |-> latitude, longitude |-> longitude,
       disable_notification |-> FALSE],
      None>>

\* a send_location that keeps the task it cannot enqueue in the ledger
SendLocationToLedger(latitude, longitude) ==
    LET outcome == IF QueueFull(message_queue) THEN QueueFullHandled ELSE "queued"
    IN  /\ calls < MaxSends
        /\ calls' = calls + 1
        /\ last_call' = [op |-> "send_location", message |-> "",
                         allow_duplicates |-> TRUE, outcome |-> outcome]
        /\ message_queue' = IF outcome = "queued"
                            THEN Append(message_queue, LocationTask(latitude, longitude))
                            ELSE message_queue
        /\ failed_messages' = IF outcome = "full"
                              THEN Append(failed_messages,
                                          LocationTask(latitude, longitude))
                              ELSE failed_messages
        /\ late_enqueue' = (late_enqueue \/ (stop_event /\ outcome = "queued"))
        /\ UNCHANGED <<recent_messages, stop_event, client_closed,
                       pc, batch, collected_messages, slots, elapsed, now, stop_pc,
                       sent_age, owed, retried>>

\* send_location; send_media_group, send_contact, send_poll, send_venue and
\* send_invoice enqueue in the same way
SendLocation(latitude, longitude) ==
    LET outcome == IF QueueFull(message_queue) THEN QueueFullHandled ELSE "queued"
    IN  /\ calls < MaxSends
        /\ calls' = calls + 1
        /\ last_call' = [op |-> "send_location", message |-> "",
                         allow_duplicates |-> TRUE, outcome |-> outcome]
        /\ message_queue' = IF outcome = "queued"
                            THEN Append(message_queue, LocationTask(latitude, longitude))
                            ELSE message_queue
        /\ late_enqueue' = (late_enqueue \/ (stop_event /\ outcome = "queued"))
        /\ UNCHANGED <<recent_messages, failed_messages, stop_event, client_closed,
                       pc, batch, collected_messages, slots, elapsed, now, stop_pc,
                       sent_age, owed, retried>>

Producer ==
    \/ \E m \in Messages \cup BlankMessages, p \in ParseModes, d \in BOOLEAN :
          SendMessage(m, p, d)
    \/ \E x \in BOOLEAN : SendMedia("sendPhoto", "photo", "img", x)
    \/ SendLocation(40, 74)

Init ==
    /\ \E m \in ConnectionMessages :
          /\ message_queue = <<TextTask(Wrap(m, 0), "Markdown")>>
          /\ recent_messages = CacheSet(<<>>, Sha256(Wrap(m, 0)))
          /\ last_call = [op |-> "send_message", message |-> m,
                          allow_duplicates |-> FALSE, outcome |-> "queued"]
          /\ sent_age = [x \in Messages |-> IF x = m THEN 0 ELSE Ttl]
    /\ failed_messages = <<>>
    /\ stop_event = FALSE
    /\ client_closed = FALSE
    /\ pc = "outer"
    /\ batch = <<>>
    /\ collected_messages = <<>>
    /\ slots = <<>>
    /\ elapsed = 0
    /\ now = 0
    /\ stop_pc = "none"
    /\ calls = 0
    /\ owed = 0
    /\ late_enqueue = FALSE
    /\ retried = <<>>

(* ---- _send_request ---- *)

Outcomes == {"ok", "status_error", "transport_error"}

\* delay: the sleep_time of the backoff sleep the call is in, in ticks
NewSlot == [tries |-> 0, last |-> "none", result |-> "pending", delay |-> 0]

\* random.uniform(0.5, 1.5), in halves: the two ends of the interval
Jitters == {1, 3}

\* a backoff whose exponent is one too high
SleepTimeExponentOff(attempt, jitter) ==
    (RetryDelay * (2 ^ (attempt + 1)) * jitter * TicksPerSecond) \div 2

\* self.retry_delay * (2**attempt) * jitter, in ticks
SleepTime(attempt, jitter) ==
    (RetryDelay * (2 ^ attempt) * jitter * TicksPerSecond) \div 2

\* range(self.max_retries)
HasAttempt(attempt) == attempt < MaxRetries

\* a budget test that is one attempt late
LastAttemptOffByOne(attempt) == ~(attempt < MaxRetries)

\* not (attempt < self.max_retries - 1)
LastAttempt(attempt) == ~(attempt < MaxRetries - 1)

\* a call whose `except Exception` branch is missing
SendRequestStepUncaught(s, outcome, jitter) ==
    LET attempt == s.tries
    IN  IF ~HasAttempt(attempt)
        THEN [s EXCEPT !.result = "failed", !.delay = 0]
        ELSE IF outcome = "ok"
        THEN [s EXCEPT !.tries = attempt + 1, !.last = outcome, !.result = "ok",
                       !.delay = 0]
        ELSE IF outcome = "status_error"
        THEN IF LastAttempt(attempt)
             THEN [s EXCEPT !.tries = attempt + 1, !.last = outcome,
                            !.result = "failed", !.delay = 0]
             ELSE [s EXCEPT !.tries = attempt + 1, !.last = outcome,
                            !.delay = SleepTime(attempt, jitter)]
        ELSE [s EXCEPT !.tries = attempt + 1, !.last = outcome, !.result = "raised",
                       !.delay = 0]

\* one iteration of the for loop on a call that has made s.tries submissions
SendRequestStep(s, outcome, jitter) ==
    LET attempt == s.tries
    IN  IF ~HasAttempt(attempt)
        THEN [s EXCEPT !.result = "failed", !.delay = 0]
        ELSE IF outcome = "ok"
        THEN [s EXCEPT !.tries = attempt + 1, !.last = outcome, !.result = "ok",
                       !.delay = 0]
        ELSE IF outcome = "status_error"
        THEN IF LastAttempt(attempt)
             THEN [s EXCEPT !.tries = attempt + 1, !.last = outcome,
                            !.result = "failed", !.delay = 0]
             ELSE [s EXCEPT !.tries = attempt + 1, !.last = outcome,
                            !.delay = SleepTime(attempt, jitter)]
        ELSE [s EXCEPT !.tries = attempt + 1, !.last = outcome, !.result = "failed",
                       !.delay = 0]

(* ---- _process_queue ---- *)

\* a join that puts the texts in the reverse of their arrival order
RECURSIVE JoinTextsReversed(_)
JoinTextsReversed(texts) ==
    IF texts = <<>> THEN <<>>
    ELSE IF Len(texts) = 1 THEN texts[1]
    ELSE JoinTextsReversed(Tail(texts)) \o <<"">> \o texts[1]

\* a join with one newline: each text begins on the line after the last
\* line of the text before it
RECURSIVE JoinTextsOneNewline(_)
JoinTextsOneNewline(texts) ==
    IF texts = <<>> THEN <<>>
    ELSE texts[1] \o JoinTextsOneNewline(Tail(texts))

\* "\n\n".join(texts): a blank line between consecutive texts
RECURSIVE JoinTexts(_)
JoinTexts(texts) ==
    IF texts = <<>> THEN <<>>
    ELSE IF Len(texts) = 1 THEN texts[1]
    ELSE texts[1] \o <<"">> \o JoinTexts(Tail(texts))

\* a merge that keeps the first text only
MergedTaskFirstOnly(texts) ==
    <<"sendMessage", [chat_id |-> ChatId, text |-> texts[1]], None>>

MergedTask(texts) ==
    <<"sendMessage", [chat_id |-> ChatId, text |-> JoinTexts(texts)], None>>

\* a ledger entry that keeps the whole task
LedgerEntryWhole(task) == task

\* the task recorded for a future: (endpoint, payload)
LedgerEntry(task) == <<task[1], task[2]>>

\* a test that takes the stop signal only once the queue is empty
StopSeenWhenDrained == stop_event /\ message_queue = <<>>

\* self.stop_event.is_set(), at the head of the while
StopSeen == stop_event

LoopExit ==
    /\ pc = "outer"
    /\ StopSeen
    /\ pc' = "exited"
    /\ UNCHANGED <<message_queue, recent_messages, failed_messages, stop_event,
                   client_closed, batch, collected_messages, slots, elapsed, now,
                   stop_pc, calls, last_call, sent_age, owed, late_enqueue, retried>>

\* a cycle that goes on with the batch of the cycle before
BatchKept == batch

\* batch = []
FreshBatch == <<>>

StartCycle ==
    /\ pc = "outer"
    /\ ~StopSeen
    /\ pc' = "collecting"
    /\ batch' = FreshBatch
    /\ collected_messages' = <<>>
    /\ slots' = <<>>
    /\ elapsed' = 0
    /\ retried' = <<>>
    /\ UNCHANGED <<message_queue, recent_messages, failed_messages, stop_event,
                   client_closed, now, stop_pc, calls, last_call, sent_age, owed,
                   late_enqueue>>

\* message_queue.get returns an item
Collect ==
    /\ pc = "collecting"
    /\ elapsed < BatchInterval
    /\ message_queue # <<>>
    /\ LET item == Head(message_queue)
       IN  /\ message_queue' = Tail(message_queue)
           /\ owed' = IF owed > 0 THEN owed - 1 ELSE 0
           /\ IF item[1] = "STOP"
              THEN /\ pc' = "exited"
                   /\ UNCHANGED <<batch, collected_messages>>
              ELSE /\ pc' = pc
                   /\ IF item[1] = "sendMessage"
                      THEN /\ collected_messages' = Append(collected_messages, item[2].text)
                           /\ batch' = batch
                      ELSE /\ batch' = Append(batch, item)
                           /\ collected_messages' = collected_messages
    /\ UNCHANGED <<recent_messages, failed_messages, stop_event, client_closed,
                   slots, elapsed, now, stop_pc, calls, last_call, sent_age,
                   late_enqueue, retried>>

\* message_queue.get(timeout=0.5) raises queue.Empty
PollTimeout ==
    /\ pc = "collecting"
    /\ elapsed < BatchInterval
    /\ message_queue = <<>>
    /\ Advance
    /\ UNCHANGED <<message_queue, failed_messages, stop_event, client_closed, pc,
                   batch, collected_messages, slots, stop_pc, calls, last_call,
                   owed, late_enqueue, retried>>

\* the window has elapsed: merge the texts, submit the batch to the pool
Merge ==
    /\ pc = "collecting"
    /\ ~(elapsed < BatchInterval)
    /\ batch' = IF collected_messages # <<>>
                THEN Append(batch, MergedTask(collected_messages))
                ELSE batch
    /\ slots' = [i \in 1..Len(batch') |-> NewSlot]
    /\ pc' = IF batch' # <<>> THEN "dispatching" ELSE "retrying"
    /\ UNCHANGED <<message_queue, recent_messages, failed_messages, stop_event,
                   client_closed, collected_messages, elapsed, now, stop_pc, calls,
                   last_call, sent_age, owed, late_enqueue, retried>>

\* a worker of the pool runs one iteration of _send_request for batch[i];
\* as_completed hands a finished call to the loop, which records a failure
SendAttempt(i) ==
    /\ pc = "dispatching"
    /\ i \in 1..Len(slots)
    /\ slots[i].result = "pending"
    /\ \E outcome \in Outcomes, jitter \in Jitters :
          LET s == SendRequestStep(slots[i], outcome, jitter)
          IN  /\ slots' = [slots EXCEPT ![i] = s]
              /\ failed_messages' = IF s.result = "failed"
                                    THEN Append(failed_messages, LedgerEntry(batch[i]))
                                    ELSE failed_messages
    /\ UNCHANGED <<message_queue, recent_messages, stop_event, client_closed, pc,
                   batch, collected_messages, elapsed, now, stop_pc, calls,
                   last_call, sent_age, owed, late_enqueue, retried>>

\* a wait that ends with the first future that resolves
FirstResolved(ss) == \E i \in 1..Len(ss) : ss[i].result # "pending"

\* as_completed has yielded every future of the pool
AllResolved(ss) == \A i \in 1..Len(ss) : ss[i].result # "pending"

\* the pool is torn down once every future has resolved
JoinWorkers ==
    /\ pc = "dispatching"
    /\ AllResolved(slots)
    /\ pc' = "retrying"
    /\ UNCHANGED <<message_queue, recent_messages, failed_messages, stop_event,
                   client_closed, batch, collected_messages, slots, elapsed, now,
                   stop_pc, calls, last_call, sent_age, owed, late_enqueue, retried>>

\* for endpoint, payload, files in self.failed_messages
CanUnpack(entry) == Len(entry) = 3

Remaining(ledger, results) ==
    LET idx == {i \in 1..Len(ledger) : ~results[i]}
        RECURSIVE Build(_)
        Build(i) == IF i > Len(ledger) THEN <<>>
                    ELSE IF i \in idx
                         THEN <<<<ledger[i][1], ledger[i][2], ledger[i][3]>>>> \o Build(i + 1)
                         ELSE Build(i + 1)
    IN  Build(1)

\* a cycle whose exception ends the thread
AfterExceptionUncaught == "exited"

\* a handler that runs the retry step again until it raises no more
AfterExceptionRetryAgain == "retrying"

\* except Exception of the cycle: logged, the thread goes back to the while
AfterException == "outer"

\* a retry step that resubmits the tasks of the cycle's batch
RetrySourceBatch == batch

\* the entries the retry step tests and iterates: self.failed_messages
RetrySource == failed_messages

\* _retry_failed_messages, called at the end of the cycle; an exception it
\* raises is caught by the cycle's handler, which skips the sleep
RetryFailedMessages ==
    /\ pc = "retrying"
    /\ IF RetrySource = <<>>
       THEN /\ pc' = "idle"
            /\ UNCHANGED <<failed_messages, retried, batch, collected_messages, slots>>
       ELSE IF \A i \in 1..Len(RetrySource) : CanUnpack(RetrySource[i])
       THEN \E results \in [1..Len(RetrySource) -> BOOLEAN] :
               /\ retried' = results
               /\ failed_messages' = Remaining(RetrySource, results)
               /\ pc' = "idle"
               /\ UNCHANGED <<batch, collected_messages, slots>>
       ELSE LET bad == CHOOSE i \in 1..Len(RetrySource) :
                           /\ ~CanUnpack(RetrySource[i])
                           /\ \A j \in 1..(i - 1) : CanUnpack(RetrySource[j])
            IN  \E results \in [1..(bad - 1) -> BOOLEAN] :
                   /\ retried' = results
                   /\ failed_messages' = failed_messages
                   /\ pc' = AfterException
                   /\ batch' = FreshBatch
                   /\ collected_messages' = <<>>
                   /\ slots' = <<>>
    /\ UNCHANGED <<message_queue, recent_messages, stop_event, client_closed,
                   elapsed, now, stop_pc, calls, last_call, sent_age, owed,
                   late_enqueue>>

\* time.sleep(0.5); the cycle's locals are dead from here on
Sleep ==
    /\ pc = "idle"
    /\ pc' = "outer"
    /\ Advance
    /\ batch' = FreshBatch
    /\ collected_messages' = <<>>
    /\ slots' = <<>>
    /\ UNCHANGED <<message_queue, failed_messages, stop_event, client_closed,
                   stop_pc, calls, last_call, owed, late_enqueue, retried>>

(* ---- stop ---- *)

Stop ==
    /\ stop_pc = "none"
    /\ stop_event' = TRUE
    /\ stop_pc' = "draining"
    /\ owed' = Len(message_queue)
    /\ UNCHANGED <<message_queue, recent_messages, failed_messages, client_closed,
                   pc, batch, collected_messages, slots, elapsed, now, calls,
                   last_call, sent_age, late_enqueue, retried>>

\* while not self.message_queue.empty() ends
StopDrained ==
    /\ stop_pc = "draining"
    /\ message_queue = <<>>
    /\ stop_pc' = "joining"
    /\ UNCHANGED <<message_queue, recent_messages, failed_messages, stop_event,
                   client_closed, pc, batch, collected_messages, slots, elapsed,
                   now, calls, last_call, sent_age, owed, late_enqueue, retried>>

\* a shutdown that does not wait for the thread
ShutdownNoWait == TRUE

\* executor.shutdown(wait=True) returns once _process_queue has returned
ShutdownReturns == pc = "exited"

\* executor.shutdown(wait=True) returns, then httpx_client.close()
StopJoined ==
    /\ stop_pc = "joining"
    /\ ShutdownReturns
    /\ client_closed' = TRUE
    /\ stop_pc' = "stopped"
    /\ UNCHANGED <<message_queue, recent_messages, failed_messages, stop_event,
                   pc, batch, collected_messages, slots, elapsed, now, calls,
                   last_call, sent_age, owed, late_enqueue, retried>>

\* time passes while the loop waits for the pool (the workers are in
\* httpx_client.post or in a backoff sleep), counted once the futures have
\* resolved, and after the thread has returned; the other steps of the loop
\* are taken as instantaneous against a tick of 0.5 s
Tick ==
    /\ \/ pc = "exited"
       \/ pc = "dispatching" /\ \A i \in 1..Len(slots) : slots[i].result # "pending"
    /\ Advance
    /\ UNCHANGED <<message_queue, failed_messages, stop_event, client_closed, pc,
                   batch, collected_messages, slots, stop_pc, calls, last_call,
                   owed, late_enqueue, retried>>

Loop ==
    \/ LoopExit
    \/ StartCycle
    \/ Collect
    \/ PollTimeout
    \/ Merge
    \/ \E i \in 1..Len(slots) : SendAttempt(i)
    \/ JoinWorkers
    \/ RetryFailedMessages
    \/ Sleep

Stopper ==
    \/ Stop
    \/ StopDrained
    \/ StopJoined

Next ==
    \/ Producer
    \/ Loop
    \/ Stopper
    \/ Tick

Spec == Init /\ [][Next]_vars

FairSpec == Spec /\ WF_vars(Loop) /\ WF_vars(Stopper) /\ WF_vars(Tick)

\* the loop's thread and the clock keep running; stop() may never be called
LoopFairSpec == Spec /\ WF_vars(Loop) /\ WF_vars(Tick)

(* ---- the sentinel ---- *)

\* the item the loop takes as its order to return: item[0] == "STOP"
StopTask == <<"STOP", None, None>>

\* no method of the class enqueues the sentinel: a caller puts it on the
\* object's message_queue by message_queue.put_nowait, which raises
\* queue.Full to that caller when the queue is full
PutSentinel ==
    LET outcome == IF QueueFull(message_queue) THEN "raised" ELSE "queued"
    IN  /\ calls < MaxSends
        /\ calls' = calls + 1
        /\ last_call' = [op |-> "put_stop", message |-> "",
                         allow_duplicates |-> TRUE, outcome |-> outcome]
        /\ message_queue' = IF outcome = "queued"
                            THEN Append(message_queue, StopTask)
                            ELSE message_queue
        /\ late_enqueue' = (late_enqueue \/ (stop_event /\ outcome = "queued"))
        /\ UNCHANGED <<recent_messages, failed_messages, stop_event, client_closed,
                       pc, batch, collected_messages, slots, elapsed, now, stop_pc,
                       sent_age, owed, retried>>

SentinelNext ==
    \/ Next
    \/ PutSentinel

\* the program with a caller that may put the sentinel on the queue
SentinelSpec == Init /\ [][SentinelNext]_vars

(* ---- properties ---- *)

LoopStepFrom(p) == pc = p /\ pc' # p

FailedSlots == {i \in 1..Len(slots) : slots[i].result = "failed"}

\* C1: every task that is in the queue when stop() sets the stop signal has
\* been dequeued by the time the dispatch loop's thread has terminated.
C1_QueuedAtStopDrained == pc = "exited" => owed = 0

\* C2: once stop() has begun, it returns, unless a producer enqueues after
\* the stop signal was set.
C2_StopReturns ==
    [](stop_pc = "draining" => <>(stop_pc = "stopped" \/ late_enqueue))

KeptAfterRetry(ledger, results) ==
    LET RECURSIVE Keep(_)
        Keep(i) == IF i > Len(ledger) THEN <<>>
                   ELSE IF i \in DOMAIN results /\ results[i]
                        THEN Keep(i + 1)
                        ELSE <<LedgerEntry(ledger[i])>> \o Keep(i + 1)
    IN  Keep(1)

\* C3: the ledger retry step of a cycle resubmits every task the ledger holds
\* once, and leaves in the ledger exactly the tasks whose resubmission failed.
C3_LedgerRetried ==
    [][LoopStepFrom("retrying") =>
          /\ Len(retried') = Len(failed_messages)
          /\ failed_messages' = KeptAfterRetry(failed_messages, retried')]_vars

\* C4: a send_message(m, allow_duplicates=False) made within the TTL of an
\* earlier one for the same m puts no task in the queue.
C4_SecondSendSuppressed ==
    [][\A m \in Messages, p \in ParseModes :
          (SendMessage(m, p, FALSE) /\ sent_age[m] < Ttl)
              => message_queue' = message_queue]_vars

\* C5 (as claimed): a send_message call with allow_duplicates=True leaves the
\* dedup cache as it was.
C5_DupSendLeavesCache ==
    [][\A m \in Messages, p \in ParseModes :
          SendMessage(m, p, TRUE) => recent_messages' = recent_messages]_vars

\* C5 (amended): a send_message call with a non-empty message and
\* allow_duplicates=True records the fingerprint of its framed text with a
\* fresh TTL clock, so that the same framed text sent with
\* allow_duplicates=False is then suppressed.
C5_DupSendRecords ==
    [][\A m \in Messages, p \in ParseModes :
          SendMessage(m, p, TRUE) =>
              LET h == Sha256(Wrap(m, now))
              IN  /\ recent_messages'[Len(recent_messages')] = [key |-> h, age |-> 0]
                  /\ Suppressed(recent_messages', h, FALSE)]_vars

C5_Witness ==
    /\ last_call.op = "send_message"
    /\ last_call.allow_duplicates
    /\ last_call.outcome = "queued"
    /\ \E i \in 1..Len(recent_messages) :
          /\ recent_messages[i].key = Sha256(Wrap(last_call.message, now))
          /\ recent_messages[i].age = 0

RECURSIVE Flatten(_)
Flatten(texts) ==
    IF texts = <<>> THEN <<>> ELSE texts[1] \o Flatten(Tail(texts))

TextTasks(b) == {i \in 1..Len(b) : b[i][1] = "sendMessage"}

\* C6: the k >= 1 texts dequeued in one batch window are dispatched as exactly
\* one text submission, whose text holds each of them once, in dequeue order.
C6_OneMergedText ==
    (pc = "dispatching" /\ collected_messages # <<>>) =>
        /\ Cardinality(TextTasks(batch)) = 1
        /\ \A i \in TextTasks(batch) :
              SelectSeq(batch[i][2].text, LAMBDA line : line # "")
                  = Flatten(collected_messages)

C6_Witness ==
    /\ pc = "dispatching"
    /\ Len(collected_messages) >= 2
    /\ collected_messages[1] # collected_messages[2]

\* C7: a Request Sender call reports failure only once max_retries attempts
\* have been made, whatever the kind of failure of each attempt.
C7_RetryUntilBudget ==
    \A i \in 1..Len(slots) :
        slots[i].result = "failed" => slots[i].tries = MaxRetries

\* C8: a Request Sender call never makes more than max_retries submissions;
\* when the max_retries-th submission succeeds the call reports success, and
\* when it fails the call reports failure.
C8_BudgetOutcome ==
    \A i \in 1..Len(slots) :
        /\ slots[i].tries <= MaxRetries
        /\ (slots[i].tries = MaxRetries /\ slots[i].last = "ok")
               => slots[i].result = "ok"
        /\ (slots[i].tries = MaxRetries /\ slots[i].last # "ok")
               => slots[i].result = "failed"

C8_Witness ==
    \E i, j \in 1..Len(slots) :
        /\ slots[i].tries = MaxRetries
        /\ slots[i].last = "ok"
        /\ slots[i].result = "ok"
        /\ slots[j].tries = MaxRetries
        /\ slots[j].last = "status_error"
        /\ slots[j].result = "failed"

\* C9: the queue never holds more than queue_size tasks, and a producer call
\* made while it holds queue_size tasks leaves it unchanged.
C9_QueueBounded ==
    /\ [](Len(message_queue) <= QueueSize)
    /\ [][(Producer /\ Len(message_queue) = QueueSize)
             => message_queue' = message_queue]_vars

C9_Witness ==
    /\ last_call.outcome = "full"
    /\ Len(message_queue) = QueueSize

CacheKeys(cache) == {cache[i].key : i \in 1..Len(cache)}

\* C11 (as claimed): no producer call changes the dedup cache or the ledger.
C11_ProducersWriteQueueOnly ==
    [][Producer => /\ recent_messages' = recent_messages
                   /\ failed_messages' = failed_messages]_vars

\* C11 (amended): the ledger is written only by the dispatch loop; the
\* fingerprints of the dedup cache are written only by send_message, on the
\* caller's thread, and never by the dispatch loop.
C11_SingleWriters ==
    [][/\ failed_messages' # failed_messages => Loop
       /\ CacheKeys(recent_messages') # CacheKeys(recent_messages) =>
              \E m \in Messages, p \in ParseModes, d \in BOOLEAN :
                  SendMessage(m, p, d)]_vars

C11_Witness ==
    /\ failed_messages # <<>>
    /\ Cardinality(CacheKeys(recent_messages)) >= 2
    /\ last_call.op = "send_message"
    /\ last_call.outcome = "queued"
    /\ calls = 1

\* C12: a send_message call with a non-empty message and
\* allow_duplicates=True is never suppressed: its task is appended to the
\* queue unless the queue is full, whatever the dedup cache holds.
C12_DupSendNeverSuppressed ==
    [][\A m \in Messages, p \in ParseModes :
          SendMessage(m, p, TRUE) =>
              /\ last_call'.outcome \in {"queued", "full"}
              /\ ~QueueFull(message_queue) =>
                     message_queue' = Append(message_queue,
                                             TextTask(Wrap(m, now), p))]_vars

\* the call was made in second 0, when the cache held the fingerprint of the
\* same text, recorded at construction
C12_Witness ==
    /\ last_call.op = "send_message"
    /\ last_call.allow_duplicates
    /\ last_call.outcome = "queued"
    /\ calls = 1
    /\ last_call.message \in ConnectionMessages
    /\ now < TicksPerSecond

\* C13: a send_message call with allow_duplicates=False whose fingerprint is
\* in the dedup cache and unexpired changes neither the queue nor the cache.
C13_SuppressedSendChangesNothing ==
    [][\A m \in Messages, p \in ParseModes :
          (SendMessage(m, p, FALSE)
             /\ CacheContains(recent_messages, Sha256(Wrap(m, now))))
              => /\ message_queue' = message_queue
                 /\ recent_messages' = recent_messages]_vars

C13_Witness ==
    /\ last_call.op = "send_message"
    /\ last_call.outcome = "duplicate"
    /\ calls = 1
    /\ \E i \in 1..Len(recent_messages) :
          /\ recent_messages[i].key = Sha256(Wrap(last_call.message, now))
          /\ recent_messages[i].age = 1

\* C14: stop() sets the stop signal, then sees the queue empty, then sees the
\* loop's thread ended, then closes the transport client; the client is
\* closed only once the thread has ended, and no submission is made on a
\* closed client.
C14_StopOrder ==
    /\ [](client_closed => (pc = "exited" /\ stop_event /\ stop_pc = "stopped"))
    /\ [][stop_pc' # stop_pc =>
             \/ /\ stop_pc = "none" /\ stop_pc' = "draining"
                /\ stop_event' /\ ~client_closed'
             \/ /\ stop_pc = "draining" /\ stop_pc' = "joining"
                /\ stop_event /\ message_queue = <<>> /\ ~client_closed'
             \/ /\ stop_pc = "joining" /\ stop_pc' = "stopped"
                /\ pc = "exited" /\ ~client_closed /\ client_closed']_vars
    /\ [][(\E i \in 1..Len(slots) : SendAttempt(i)) => ~client_closed]_vars

C14_Witness ==
    /\ stop_pc = "stopped"
    /\ client_closed
    /\ failed_messages # <<>>

\* C15: an exception raised inside a dispatch cycle is caught: the thread
\* goes back to the head of its loop, and it ends only once the stop signal
\* is set.
C15_CycleExceptionCaught ==
    /\ [](pc = "exited" => stop_event)
    /\ [][(LoopStepFrom("retrying")
             /\ \E i \in 1..Len(failed_messages) : ~CanUnpack(failed_messages[i]))
            => pc' = "outer"]_vars

C15_Witness ==
    /\ pc = "collecting"
    /\ ~stop_event
    /\ failed_messages # <<>>

\* C16: a producer can be called in every state of the engine, and every
\* producer call returns normally.
C16_ProducersReturn ==
    /\ last_call.outcome \in {"queued", "full", "duplicate", "empty", "no_file"}
    /\ calls < MaxSends => ENABLED SendLocation(40, 74)
    /\ (calls < MaxSends /\ now < MaxClock) =>
          /\ \A m \in Messages \cup BlankMessages, p \in ParseModes, d \in BOOLEAN :
                ENABLED SendMessage(m, p, d)
          /\ \A x \in BOOLEAN : ENABLED SendMedia("sendPhoto", "photo", "img", x)

C16_Witness ==
    /\ calls = 1
    /\ last_call.outcome = "full"
    /\ stop_event

Backoff(n) == TicksPerSecond * RetryDelay * (2 ^ (n - 2))

Jittered(delay, n) == 2 * delay >= Backoff(n) /\ 2 * delay <= 3 * Backoff(n)

\* C18: the wait before attempt n >= 2 of a Request Sender call is
\* retry_delay * 2^(n-2) * jitter with jitter in [0.5, 1.5]; no wait is made
\* before the first attempt nor after the last attempt.
C18_BackoffDelay ==
    \A i \in 1..Len(slots) :
        LET s == slots[i]
        IN  /\ s.tries = 0 => s.delay = 0
            /\ (s.result = "pending" /\ s.tries >= 1) => Jittered(s.delay, s.tries + 1)
            /\ s.result # "pending" => s.delay = 0

\* a call in its wait before attempt 3, with jitter 1.5
C18_Witness ==
    \E i \in 1..Len(slots) :
        /\ slots[i].tries = 2
        /\ slots[i].result = "pending"
        /\ 2 * slots[i].delay = 3 * Backoff(3)

C20_EmptyRetryNoOp ==
    [][(LoopStepFrom("retrying") /\ failed_messages = <<>>) =>
          /\ pc' = "idle"
          /\ failed_messages' = <<>>
          /\ retried' = retried
          /\ message_queue' = message_queue
          /\ recent_messages' = recent_messages
          /\ UNCHANGED <<stop_event, client_closed, batch, collected_messages,
                         slots, elapsed, now, stop_pc, calls, last_call,
                         sent_age, owed, late_enqueue>>]_vars

\* the retry step has just run after a cycle whose submissions all succeeded
C20_Witness ==
    /\ pc = "idle"
    /\ failed_messages = <<>>
    /\ retried = <<>>
    /\ slots # <<>>
    /\ \A i \in 1..Len(slots) : slots[i].result = "ok"

\* C21: while the loop is collecting, a poll timeout taken with the stop
\* signal set ends the collection: the loop does not stay in Collecting for
\* the rest of the batch window.
C21_StopSeenAtPollTimeout ==
    [][(stop_event /\ PollTimeout) => pc' # "collecting"]_vars

\* C22: when the loop dequeues the sentinel while collecting, the
\* collection of that cycle ends at once, the sentinel is put neither in the
\* batch nor among the collected texts, and the tasks the cycle has
\* collected so far are not abandoned: the thread does not end with them.
C22_SentinelKeepsCollected ==
    [][(pc = "collecting" /\ message_queue # <<>> /\ Head(message_queue) = StopTask
          /\ message_queue' = Tail(message_queue))
         => /\ pc' # "collecting"
            /\ batch' = batch
            /\ collected_messages' = collected_messages
            /\ (batch # <<>> \/ collected_messages # <<>>) => pc' # "exited"]_vars

\* C23: a task with an attachment whose submission has failed is held in the
\* ledger whole: some ledger entry has its endpoint, its payload and its
\* attachment.
C23_LedgerHoldsWholeTask ==
    pc \in {"dispatching", "retrying"} =>
        \A i \in FailedSlots :
            batch[i][3] # None =>
                \E j \in 1..Len(failed_messages) :
                    /\ Len(failed_messages[j]) = 3
                    /\ failed_messages[j][1] = batch[i][1]
                    /\ failed_messages[j][2] = batch[i][2]
                    /\ failed_messages[j][3] = batch[i][3]

InFlight == \E i \in 1..Len(slots) : slots[i].result = "pending"

\* C24: the loop leaves Dispatching for RetryingLedger only once every
\* submission of the cycle's batch has resolved: while one is in flight no
\* ledger retry is made and nothing is dequeued, and when the retry step
\* begins every failure of the batch is in the ledger.
C24_JoinBeforeRetry ==
    /\ [](InFlight => pc = "dispatching")
    /\ [][InFlight => /\ retried' = retried
                      /\ Len(message_queue') >= Len(message_queue)]_vars
    /\ [][LoopStepFrom("dispatching") => (pc' = "retrying" /\ ~InFlight')]_vars
    /\ [](pc = "retrying" =>
            /\ Len(failed_messages) >= Cardinality(FailedSlots)
            /\ \A i \in FailedSlots :
                  \E j \in 1..Len(failed_messages) :
                      failed_messages[j] = LedgerEntry(batch[i]))

\* the retry step is about to begin after a dispatch of two concurrent
\* submissions, one of which failed
C24_Witness ==
    /\ pc = "retrying"
    /\ Len(slots) >= 2
    /\ \E i, j \in 1..Len(slots) :
          /\ slots[i].result = "ok"
          /\ slots[j].result = "failed"
          /\ slots[j].tries = MaxRetries

\* C25: as long as the stop signal is not set the loop comes back to
\* Collecting: a cycle that has begun reaches its retry step, and from every
\* later position of the cycle the loop polls the queue again, whatever the
\* queue and the ledger hold.
C25_LoopReturnsToCollecting ==
    /\ [](pc = "collecting" => <>(pc = "retrying"))
    /\ [](pc \in {"dispatching", "retrying", "idle", "outer"}
            => <>(pc = "collecting" \/ stop_event))

\* the loop polls the queue in a later cycle while the ledger holds a task
\* that failed in an earlier one
C25_Witness ==
    /\ pc = "collecting"
    /\ ~stop_event
    /\ failed_messages # <<>>
    /\ elapsed > 0
    /\ message_queue = <<>>

\* the lines of the texts with one empty line between consecutive texts,
\* which is what two newline characters between them give
RECURSIVE WithBlankLines(_)
WithBlankLines(texts) ==
    IF Len(texts) = 0 THEN <<>>
    ELSE IF Len(texts) = 1 THEN texts[1]
    ELSE WithBlankLines(SubSeq(texts, 1, Len(texts) - 1)) \o <<"">> \o texts[Len(texts)]

\* C26 (as claimed): the text of the merged task is the collected texts with
\* exactly one newline between consecutive texts: the lines of the texts,
\* one after the other.
C26_JoinedByOneNewline ==
    (pc = "dispatching" /\ collected_messages # <<>>) =>
        \A i \in TextTasks(batch) : batch[i][2].text = Flatten(collected_messages)

\* C26 (amended): the text of the merged task is the collected texts, in
\* order, with exactly two newlines between consecutive texts: one empty
\* line separates the lines of each text from those of the next.
C26_JoinedByBlankLine ==
    (pc = "dispatching" /\ collected_messages # <<>>) =>
        \A i \in TextTasks(batch) : batch[i][2].text = WithBlankLines(collected_messages)

\* two texts were merged: the line after the last line of the first is empty
C26_Witness ==
    /\ pc = "dispatching"
    /\ Len(collected_messages) = 2
    /\ \E i \in TextTasks(batch) :
          /\ Len(batch[i][2].text) = Len(collected_messages[1]) + 1 + Len(collected_messages[2])
          /\ batch[i][2].text[Len(collected_messages[1]) + 1] = ""

\* every task a producer can put on the queue
AllTasks ==
    {TextTask(Wrap(m, t), p) : m \in Messages, t \in 0..MaxClock, p \in ParseModes}
        \cup {MediaTask("sendPhoto", "photo", "img", "", t) : t \in 0..MaxClock}
        \cup {LocationTask(40, 74)}

InQueue(task) == \E k \in 1..Len(message_queue) : message_queue[k] = task

ContainsLines(text, lines) ==
    \E k \in 0..(Len(text) - Len(lines)) : SubSeq(text, k + 1, k + Len(lines)) = lines

\* a future of the cycle's pool carries the task, or carries the merged text
\* that holds the lines of the task's text
Submitted(task) ==
    /\ pc = "dispatching"
    /\ \E i \in 1..Len(slots) :
          IF task[1] = "sendMessage"
          THEN /\ batch[i][1] = "sendMessage"
               /\ ContainsLines(batch[i][2].text, task[2].text)
          ELSE batch[i] = task

\* C27: unless the stop signal is set, every task in the queue is in the end
\* dequeued and submitted to the Request Sender, as itself or, for a text
\* task, inside the merged text of the cycle that dequeued it.
C27_QueuedIsSubmitted ==
    \A task \in AllTasks : [](InQueue(task) => <>(stop_event \/ Submitted(task)))

\* a task put by a producer after construction has been submitted, the stop
\* signal not being set
C27_Witness ==
    /\ ~stop_event
    /\ calls >= 1
    /\ last_call.outcome = "queued"
    /\ \E task \in AllTasks :
          /\ task[1] # "sendMessage" \/ task[2].text[2] \notin ConnectionMessages
          /\ Submitted(task)

\* C28: a send_message call that drops its message, as empty or on a full
\* queue, puts no fingerprint in the dedup cache: the fingerprint of the
\* dropped text is in the cache after the call only if it was there before.
C28_DroppedSendLeavesCache ==
    [][\A m \in Messages \cup BlankMessages, p \in ParseModes, d \in BOOLEAN :
          (SendMessage(m, p, d) /\ last_call'.outcome \in {"empty", "full"})
              => (CacheContains(recent_messages', Sha256(Wrap(m, now)))
                     => CacheContains(recent_messages, Sha256(Wrap(m, now))))]_vars

\* C29: the Dispatching step submits one future for each task of the batch,
\* the batch being the non-text tasks dequeued in this cycle and at most one
\* merged text; a future that has resolved is not run again, and a cycle
\* begins with an empty batch that grows only by what the cycle dequeues, so
\* that no task of an earlier cycle is dispatched again.
C29_EachTaskOnce ==
    /\ [](pc = "dispatching" =>
            /\ Len(slots) = Len(batch)
            /\ Cardinality(TextTasks(batch)) <= 1)
    /\ [][(pc # "collecting" /\ pc' = "collecting")
             => (batch' = <<>> /\ collected_messages' = <<>>)]_vars
    /\ [][(pc = "collecting" /\ pc' = "collecting")
             => \/ batch' = batch
                \/ /\ message_queue # <<>>
                   /\ message_queue' = Tail(message_queue)
                   /\ batch' = Append(batch, Head(message_queue))]_vars
    /\ [][(pc = "collecting" /\ pc' = "dispatching")
             => /\ Len(batch') <= Len(batch) + 1
                /\ SubSeq(batch', 1, Len(batch)) = batch
                /\ slots' = [i \in 1..Len(batch') |-> NewSlot]]_vars
    /\ [][(pc = "dispatching" /\ pc' = "dispatching")
             => /\ batch' = batch
                /\ Len(slots') = Len(slots)
                /\ \A i \in 1..Len(slots) :
                      slots[i].result # "pending" => slots'[i] = slots[i]]_vars

\* the futures of a later cycle have resolved; the ledger holds a task that
\* failed in an earlier cycle, and that task is not in this cycle's batch
C29_Witness ==
    /\ pc = "dispatching"
    /\ batch # <<>>
    /\ AllResolved(slots)
    /\ Len(failed_messages) > Cardinality(FailedSlots)
    /\ \A i \in 1..Len(batch) :
          \A j \in 1..(Len(failed_messages) - Cardinality(FailedSlots)) :
              LedgerEntry(batch[i]) # failed_messages[j]

\* C30: once the stop signal is set the loop begins no cycle, and its thread
\* returns in the end, whatever the queue and the ledger hold.
C30_StopEndsLoop ==
    /\ [][(stop_event /\ pc # "collecting") => pc' # "collecting"]_vars
    /\ [](stop_event => <>(pc = "exited"))

\* the thread has returned while stop() still waits, with a task in the
\* queue and a failed task in the ledger
C30_Witness ==
    /\ pc = "exited"
    /\ stop_pc = "draining"
    /\ message_queue # <<>>
    /\ failed_messages # <<>>

\* C31: the text submission of a cycle carries the parse_mode of the text
\* tasks it delivers: every text task is enqueued with a parse_mode, so the
\* payload of the merged task has a parse_mode field, whose value is one a
\* send_message call has set.
C31_MergedKeepsParseMode ==
    (pc = "dispatching" /\ collected_messages # <<>>) =>
        \A i \in TextTasks(batch) :
            /\ "parse_mode" \in DOMAIN batch[i][2]
            /\ batch[i][2].parse_mode \in ParseModes

====
